---------------------------- MODULE Spec2Model ----------------------------
(***************************************************************************)
(* Model of the hiking-route recommendation engine (TOPSIS ranking,        *)
(* preference weighting, dynamic criteria, trip cost, transport distance). *)
(*                                                                         *)
(* Numbers.  The program computes in IEEE doubles.  The model computes in  *)
(* integers with a fixed number of decimal places per quantity:            *)
(*   - user weights before normalisation: hundredths (0.33 is 33);         *)
(*   - user weights after normalisation: units of 1/WOne;                  *)
(*   - factor weights and weightInFactor: hundredths;                      *)
(*   - valueDecimal of a criterion value: hundredths (a rating 4.0 is 400),*)
(*     except the computed trip cost, which is in rupiah, and the computed *)
(*     accessibility score, which is in units of 1/100000;                 *)
(*   - distances on the map: metres;                                       *)
(*   - normalised values: units of 1/NOne; weighted values and distances:  *)
(*     units of 1/VOne; topsisScore: units of 1/SOne.                      *)
(* A division by zero yields the value NaN, as 0/0 does in the program;    *)
(* every comparison with NaN is false.                                     *)
(***************************************************************************)
EXTENDS Integers, Sequences, FiniteSets, TLC

VARIABLES
    catalog,        \* db.route.findMany(...): the routes with their criterion values
    factorWeights,  \* db.factorWeight.findMany(...): factor name -> weight (hundredths)
    preferences,    \* the UserPreferences of the request
    pc,             \* position of the request
    userWeights,    \* result of calculateUserWeights
    analysis,       \* result of runTopsisAnalysis (with its intermediate matrices)
    baseline,       \* result of the previous runTopsisAnalysis on the catalog
    raised,         \* <<route index, criterion key>> of the last catalog update
    call,           \* the arguments of a direct call of a service function
    returned,       \* what the service function returned
    ui,             \* the React state of the wizard page
    store,          \* server-side state: the rate limiter's map, the database tables
    log,            \* what the outside has seen so far: steps shown, requests, responses
    clock           \* Date.now(), in units of the model's time step

vars ==
    <<catalog, factorWeights, preferences, pc, userWeights, analysis, baseline, raised,
      call, returned, ui, store, log, clock>>

NaN == -1
None == [none |-> TRUE]

WOne == 10000
NOne == 10000
VOne == 100000
SOne == 10000

IsNaN(x) == x = NaN

-----------------------------------------------------------------------------
(* Sequence helpers (Array.prototype.reduce / map / Math.max / Math.min)    *)

\* an array / an object held as a value (every element computed once)
Array(f) == f \o << >>
Object(f) == f @@ << >>

RECURSIVE SumSeq(_)
SumSeq(s) == IF s = << >> THEN 0 ELSE Head(s) + SumSeq(Tail(s))

RECURSIVE MaxSeq(_)
MaxSeq(s) == IF Len(s) = 1 THEN s[1]
             ELSE LET m == MaxSeq(Tail(s)) IN IF s[1] >= m THEN s[1] ELSE m

RECURSIVE MinSeq(_)
MinSeq(s) == IF Len(s) = 1 THEN s[1]
             ELSE LET m == MinSeq(Tail(s)) IN IF s[1] <= m THEN s[1] ELSE m

\* Math.sqrt on a non-negative integer, rounded down
RECURSIVE SqrtBetween(_, _, _)
SqrtBetween(v, lo, hi) ==
    IF lo >= hi THEN lo
    ELSE LET mid == (lo + hi + 1) \div 2
         IN IF mid * mid <= v THEN SqrtBetween(v, mid, hi)
            ELSE SqrtBetween(v, lo, mid - 1)

Sqrt(v) == SqrtBetween(v, 0, 46340)

-----------------------------------------------------------------------------
(* Preference weighting                                                     *)

FactorNames == {"Physical Demand", "Logistics & Cost", "Experience Quality"}

ExperienceLevels == {"beginner", "intermediate", "advanced", "expert"}
BudgetRanges == {"under_500k", "500k_1m", "1m_2m", "2m_5m", "above_5m"}

\* the experience override with the beginner and expert branches exchanged
ExperienceWeightsSwapped(p) ==
    IF p.experience_level = "expert"
    THEN [f \in FactorNames |->
            CASE f = "Physical Demand" -> 20
              [] f = "Logistics & Cost" -> 50
              [] OTHER -> 30]
    ELSE IF p.experience_level = "beginner"
    THEN [f \in FactorNames |->
            CASE f = "Physical Demand" -> 50
              [] f = "Logistics & Cost" -> 20
              [] OTHER -> 30]
    ELSE [f \in FactorNames |->
            CASE f = "Physical Demand" -> 33
              [] f = "Logistics & Cost" -> 33
              [] OTHER -> 34]

\* lines 169-184: the baseline and the experience override
ExperienceWeights(p) ==
    IF p.experience_level = "beginner"
    THEN [f \in FactorNames |->
            CASE f = "Physical Demand" -> 20
              [] f = "Logistics & Cost" -> 50
              [] OTHER -> 30]
    ELSE IF p.experience_level = "expert"
    THEN [f \in FactorNames |->
            CASE f = "Physical Demand" -> 50
              [] f = "Logistics & Cost" -> 20
              [] OTHER -> 30]
    ELSE [f \in FactorNames |->
            CASE f = "Physical Demand" -> 33
              [] f = "Logistics & Cost" -> 33
              [] OTHER -> 34]

\* the low-budget adjustment with a larger cut of Physical Demand
BudgetAdjustedDeep(w, p) ==
    IF p.budget_range \in {"under_500k", "500k_1m"}
    THEN [w EXCEPT !["Logistics & Cost"] = @ + 10,
                   !["Physical Demand"] = @ - 25,
                   !["Experience Quality"] = @ - 5]
    ELSE w

\* lines 187-191: the low-budget adjustment
BudgetAdjusted(w, p) ==
    IF p.budget_range \in {"under_500k", "500k_1m"}
    THEN [w EXCEPT !["Logistics & Cost"] = @ + 10,
                   !["Physical Demand"] = @ - 5,
                   !["Experience Quality"] = @ - 5]
    ELSE w

\* lines 194-201: the interest adjustments
InterestAdjusted(w, p) ==
    LET w1 == IF "physical_challenge" \in p.interests
              THEN [w EXCEPT !["Physical Demand"] = @ + 10,
                             !["Experience Quality"] = @ - 10]
              ELSE w
    IN IF "scenic_views" \in p.interests
       THEN [w1 EXCEPT !["Experience Quality"] = @ + 10,
                       !["Physical Demand"] = @ - 10]
       ELSE w1

\* the weights after all additive adjustments, before normalisation
AdjustedWeights(p) ==
    InterestAdjusted(BudgetAdjusted(ExperienceWeights(p), p), p)

\* x / y on numbers with one = 1.0
Divide(x, y, one) == IF y = 0 THEN NaN ELSE (x * one) \div y

\* the normalisation with a total that leaves out the last weight
NormalizeWeightsByFirstTwo(w) ==
    LET total == w["Physical Demand"] + w["Logistics & Cost"]
    IN [f \in FactorNames |-> Divide(w[f], total, WOne)]

\* lines 204-207: divide every weight by the total
NormalizeWeights(w) ==
    LET total == w["Physical Demand"] + w["Logistics & Cost"] + w["Experience Quality"]
    IN [f \in FactorNames |-> Divide(w[f], total, WOne)]

calculateUserWeights(p) == NormalizeWeights(AdjustedWeights(p))


-----------------------------------------------------------------------------
(* Requests that only weight the preferences                                *)

\* tags offered by the questionnaire; only two of them move a weight
InterestTags == {"scenic_views", "physical_challenge", "solitude"}

WeightPreferences ==
    [experience_level : ExperienceLevels,
     fitness_level : {5},
     budget_range : BudgetRanges,
     time_commitment : {"2_days"},
     location : {"jakarta"},
     group_size : {2},
     interests : SUBSET InterestTags,
     concerns : {{}}]

NoAnalysis == None

InitWeights ==
    /\ catalog = << >>
    /\ factorWeights = << >>
    /\ preferences \in WeightPreferences
    /\ pc = "start"
    /\ userWeights = None
    /\ analysis = NoAnalysis
    /\ baseline = NoAnalysis
    /\ raised = None
    /\ call = None
    /\ returned = None
    /\ ui = None
    /\ store = None
    /\ log = << >>
    /\ clock = 0

CalculateUserWeights ==
    /\ pc = "start"
    /\ userWeights' = calculateUserWeights(preferences)
    /\ pc' = "weighted"
    /\ UNCHANGED <<clock, ui, store, log, catalog, factorWeights, preferences, analysis, baseline, raised, call, returned>>

NextWeights == CalculateUserWeights

SpecWeights == InitWeights /\ [][NextWeights]_vars

\* C8: for every experience level, budget bucket and set of interests the
\* three weights returned by calculateUserWeights are numbers and sum to 1.0
\* (WOne) within the tolerance 1e-9, which is below one unit of 1/WOne
C8_WeightsSumToOne ==
    pc = "weighted" =>
        /\ \A f \in FactorNames : ~IsNaN(userWeights[f])
        /\ userWeights["Physical Demand"] + userWeights["Logistics & Cost"]
             + userWeights["Experience Quality"] = WOne

C8_Witness ==
    /\ pc = "weighted"
    /\ preferences.experience_level = "beginner"
    /\ preferences.budget_range = "under_500k"
    /\ preferences.interests = {"scenic_views", "physical_challenge"}
    /\ userWeights["Logistics & Cost"] = 6000

\* C9: every weight returned by calculateUserWeights lies in [0,1], and no
\* weight is negative after the additive adjustments, before the division
C9_WeightsInUnitInterval ==
    pc = "weighted" =>
        \A f \in FactorNames :
            /\ AdjustedWeights(preferences)[f] >= 0
            /\ ~IsNaN(userWeights[f])
            /\ 0 <= userWeights[f]
            /\ userWeights[f] <= WOne

\* the smallest weight any combination reaches: beginner, low budget, scenic_views
C9_Witness ==
    /\ pc = "weighted"
    /\ preferences.experience_level = "beginner"
    /\ preferences.budget_range = "500k_1m"
    /\ preferences.interests = {"scenic_views"}
    /\ AdjustedWeights(preferences)["Physical Demand"] = 5
    /\ userWeights["Physical Demand"] = 500

\* C10: with the same budget and interests, Logistics & Cost / Physical Demand
\* is strictly larger for a beginner than for an expert (compared by cross
\* multiplication, both Physical Demand weights being positive)
C10_BeginnerFavoursLogistics ==
    (pc = "weighted" /\ preferences.experience_level = "beginner") =>
        LET expert == calculateUserWeights([preferences EXCEPT !.experience_level = "expert"])
        IN /\ userWeights["Physical Demand"] > 0
           /\ expert["Physical Demand"] > 0
           /\ userWeights["Logistics & Cost"] * expert["Physical Demand"]
                > expert["Logistics & Cost"] * userWeights["Physical Demand"]

C10_Witness ==
    /\ pc = "weighted"
    /\ preferences.experience_level = "beginner"
    /\ preferences.budget_range = "2m_5m"
    /\ preferences.interests = {"physical_challenge"}
    /\ userWeights["Logistics & Cost"] = 5000
    /\ userWeights["Physical Demand"] = 3000
    /\ calculateUserWeights([preferences EXCEPT !.experience_level = "expert"])["Logistics & Cost"] = 2000

-----------------------------------------------------------------------------
(* Transport distance (distance.util.ts)                                    *)

\* the own keys of LOCATION_COORDINATES
LOCATION_COORDINATES ==
    {"jakarta", "bandung", "yogyakarta", "surabaya", "bali", "lombok",
     "malang", "magelang"}

\* String.prototype.toLowerCase on the location strings of the model
ToLowerCase(s) ==
    CASE s = "Jakarta" -> "jakarta"
      [] s = "Bali" -> "bali"
      [] s = "Lombok" -> "lombok"
      [] s = "Semarang" -> "semarang"
      [] s = "Constructor" -> "constructor"
      [] OTHER -> s

\* LOCATION_COORDINATES is an object literal: besides its own keys, a lookup
\* finds the properties inherited from Object.prototype.  Of their names,
\* these are the ones a lower-cased string can be equal to.
InheritedProperties == {"constructor", "__proto__"}

\* LOCATION_COORDINATES[key] is truthy
HasCoordinates(key) == key \in LOCATION_COORDINATES \/ key \in InheritedProperties

\* distances are held in metres
KmOne == 1000

\* haversineDistance of the coordinates of two own keys, rounded to the metre
MetresBetween ==
    ({"jakarta", "bandung"} :> 116236) @@ ({"jakarta", "yogyakarta"} :> 427058) @@
    ({"jakarta", "surabaya"} :> 662572) @@ ({"jakarta", "bali"} :> 952105) @@
    ({"jakarta", "lombok"} :> 1062087) @@ ({"jakarta", "malang"} :> 667783) @@
    ({"jakarta", "magelang"} :> 397865) @@ ({"bandung", "yogyakarta"} :> 318638) @@
    ({"bandung", "surabaya"} :> 567659) @@ ({"bandung", "bali"} :> 850507) @@
    ({"bandung", "lombok"} :> 961244) @@ ({"bandung", "malang"} :> 564944) @@
    ({"bandung", "magelang"} :> 293233) @@ ({"yogyakarta", "surabaya"} :> 269378) @@
    ({"yogyakarta", "bali"} :> 534911) @@ ({"yogyakarta", "lombok"} :> 646006) @@
    ({"yogyakarta", "malang"} :> 249992) @@ ({"yogyakarta", "magelang"} :> 39881) @@
    ({"surabaya", "bali"} :> 297424) @@ ({"surabaya", "lombok"} :> 403793) @@
    ({"surabaya", "malang"} :> 79941) @@ ({"surabaya", "magelang"} :> 280428) @@
    ({"bali", "lombok"} :> 111119) @@ ({"bali", "malang"} :> 285627) @@
    ({"bali", "magelang"} :> 557292) @@ ({"lombok", "malang"} :> 396543) @@
    ({"lombok", "magelang"} :> 668088) @@ ({"malang", "magelang"} :> 271710)

\* an inherited property has no latitude or longitude: toRadians(undefined)
\* is NaN, and so is the distance
haversineDistance(a, b) ==
    IF a \notin LOCATION_COORDINATES \/ b \notin LOCATION_COORDINATES THEN NaN
    ELSE IF a = b THEN 0
    ELSE MetresBetween[{a, b}]

DefaultDistanceKm == 300

\* variant that looks the names up as given, without toLowerCase()
calculateTransportDistanceCaseSensitive(userLocation, mountainLocation) ==
    IF ~HasCoordinates(userLocation) \/ ~HasCoordinates(mountainLocation)
    THEN DefaultDistanceKm * KmOne
    ELSE haversineDistance(userLocation, mountainLocation)

\* LOCATION_COORDINATES[name.toLowerCase()] for both names, 300 km if either
\* lookup is falsy, the haversine distance of the two entries otherwise
calculateTransportDistance(userLocation, mountainLocation) ==
    LET u == ToLowerCase(userLocation)
        m == ToLowerCase(mountainLocation)
    IN IF ~HasCoordinates(u) \/ ~HasCoordinates(m)
       THEN DefaultDistanceKm * KmOne
       ELSE haversineDistance(u, m)

-----------------------------------------------------------------------------
(* Trip cost (cost.service.ts).  Amounts are held in units of 1/MoneyOne     *)
(* rupiah until Math.round, so that km/30 and the 10% buffer are exact.     *)

MoneyOne == 30

\* Math.round of an amount
RoundMoney(x) == IF IsNaN(x) THEN NaN ELSE (x + MoneyOne \div 2) \div MoneyOne

Min2(a, b) == IF a <= b THEN a ELSE b
Max2(a, b) == IF a >= b THEN a ELSE b

calculateTransportationCost(userLocation, mountainLocation, groupSize) ==
    LET distance == calculateTransportDistance(userLocation, mountainLocation)
        motorCostPerPerson == distance * ((10000 * MoneyOne) \div (30 * KmOne))
        publicTransportCost == 50000 * MoneyOne + distance * ((500 * MoneyOne) \div KmOne)
        costPerPerson == Min2(motorCostPerPerson, publicTransportCost)
        carRentalCost == distance * ((2000 * MoneyOne) \div KmOne) + 300000 * MoneyOne
    IN IF IsNaN(distance) THEN NaN
       ELSE IF groupSize > 4
       THEN Min2(costPerPerson * groupSize, carRentalCost)
       ELSE costPerPerson * groupSize

\* the difficulty multiplier in tenths
DifficultyMultiplier(routeDifficulty) ==
    CASE routeDifficulty = "Easy" -> 10
      [] routeDifficulty = "Moderate" -> 12
      [] routeDifficulty = "Hard" -> 15
      [] routeDifficulty = "Expert" -> 20
      [] OTHER -> 10

calculatePermitCost(mountainLocation, routeDifficulty, groupSize) ==
    LET basePermit ==
            CASE mountainLocation = "lombok" -> 150000
              [] mountainLocation = "malang" -> 200000
              [] mountainLocation = "magelang" -> 100000
              [] OTHER -> 120000
    IN IF mountainLocation \in InheritedProperties THEN NaN
       ELSE basePermit * groupSize * DifficultyMultiplier(routeDifficulty)
                * (MoneyOne \div 10)

calculateGuideCost(routeDifficulty, duration, groupSize, needsGuide) ==
    IF ~needsGuide THEN 0
    ELSE LET baseDailyRate ==
                 CASE routeDifficulty = "Easy" -> 200000
                   [] routeDifficulty = "Moderate" -> 300000
                   [] routeDifficulty = "Hard" -> 400000
                   [] routeDifficulty = "Expert" -> 500000
                   [] OTHER -> 300000
             guidesNeeded == (groupSize + 3) \div 4
         IN baseDailyRate * duration * guidesNeeded * MoneyOne

calculateAccommodationCost(duration, groupSize, budgetLevel) ==
    LET rate == CASE budgetLevel = "budget" -> 75000
                  [] budgetLevel = "standard" -> 150000
                  [] budgetLevel = "premium" -> 300000
        nightsNeeded == Max2(0, duration - 1)
    IN rate * groupSize * nightsNeeded * MoneyOne

calculateMealCost(duration, groupSize, budgetLevel) ==
    LET rate == CASE budgetLevel = "budget" -> 50000
                  [] budgetLevel = "standard" -> 75000
                  [] budgetLevel = "premium" -> 125000
    IN rate * groupSize * duration * MoneyOne

calculateEquipmentCost(needsEquipment, duration, groupSize, routeDifficulty) ==
    IF ~needsEquipment THEN 0
    ELSE LET base == CASE routeDifficulty = "Easy" -> 100000
                       [] routeDifficulty = "Moderate" -> 150000
                       [] routeDifficulty = "Hard" -> 200000
                       [] routeDifficulty = "Expert" -> 300000
                       [] OTHER -> 150000
         IN base * groupSize * duration * MoneyOne

calculateTripCost(input) ==
    LET transportation == calculateTransportationCost(
            input.userLocation, input.mountainLocation, input.groupSize)
        permits == calculatePermitCost(
            input.mountainLocation, input.routeDifficulty, input.groupSize)
        guide == calculateGuideCost(
            input.routeDifficulty, input.duration, input.groupSize, input.needsGuide)
        accommodation == calculateAccommodationCost(
            input.duration, input.groupSize, input.budgetLevel)
        meals == calculateMealCost(input.duration, input.groupSize, input.budgetLevel)
        equipment == calculateEquipmentCost(
            input.needsEquipment, input.duration, input.groupSize, input.routeDifficulty)
        subtotal ==
            IF IsNaN(transportation) \/ IsNaN(permits) THEN NaN
            ELSE transportation + permits + guide + accommodation + meals + equipment
        miscellaneous == IF IsNaN(subtotal) THEN NaN ELSE subtotal \div 10
        total == IF IsNaN(subtotal) THEN NaN ELSE subtotal + miscellaneous
    IN [transportation |-> RoundMoney(transportation),
        permits |-> RoundMoney(permits),
        guide |-> RoundMoney(guide),
        accommodation |-> RoundMoney(accommodation),
        meals |-> RoundMoney(meals),
        equipment |-> RoundMoney(equipment),
        miscellaneous |-> RoundMoney(miscellaneous),
        total |-> RoundMoney(total)]

-----------------------------------------------------------------------------
(* Dynamic criteria (addDynamicCriteria)                                    *)

\* preferences.location || 'jakarta'
\* location.toLowerCase().split(',')[0].trim() on the mountain locations of
\* the model
MountainLocation(location) ==
    CASE location = "Lombok, West Nusa Tenggara" -> "lombok"
      [] location = "East Java" -> "east java"
      [] location = "Central Java / Yogyakarta" -> "central java / yogyakarta"
      [] location = "Malang, East Java" -> "malang"
      [] OTHER -> ToLowerCase(location)

LocationOrDefault(p) == IF p.location = "" THEN "jakarta" ELSE p.location

\* Math.ceil(route.duration / 24) || 1
TripDays(route) ==
    LET days == (route.duration + 23) \div 24 IN IF days = 0 THEN 1 ELSE days

CostInput(route, p) ==
    [userLocation |-> LocationOrDefault(p),
     mountainLocation |-> MountainLocation(route.mountain.location),
     routeDifficulty |-> route.difficulty,
     duration |-> TripDays(route),
     groupSize |-> IF p.group_size = 0 THEN 2 ELSE p.group_size,
     needsGuide |-> p.experience_level = "beginner",
     needsEquipment |-> "equipment" \in p.concerns,
     budgetLevel |-> IF p.budget_range = "under_500k" THEN "budget"
                     ELSE IF p.budget_range = "above_5m" THEN "premium"
                     ELSE "standard"]

\* variant with the score clamped to the 1..5 scale of the static criteria
AccessibilityScoreClamped(distance) ==
    IF IsNaN(distance) THEN NaN
    ELSE Min2(500 * KmOne, Max2(100 * KmOne, 600 * KmOne - distance))

\* Math.max(1, 6 - (distance / 100)), in units of 1/(100 * KmOne)
AccessibilityScore(distance) ==
    IF IsNaN(distance) THEN NaN ELSE Max2(100 * KmOne, 600 * KmOne - distance)

DynamicValues(route, p) ==
    route.criterionValues \o
    << [criterionId |-> "calculated_cost",
        criterion |-> [name |-> "Total Trip Cost", isBenefit |-> FALSE,
                       factor |-> "Logistics & Cost", weightInFactor |-> 60],
        valueDecimal |-> calculateTripCost(CostInput(route, p)).total],
       [criterionId |-> "accessibility_score",
        criterion |-> [name |-> "Accessibility Score", isBenefit |-> TRUE,
                       factor |-> "Logistics & Cost", weightInFactor |-> 40],
        valueDecimal |-> AccessibilityScore(
            calculateTransportDistance(LocationOrDefault(p),
                                       MountainLocation(route.mountain.location)))] >>

addDynamicCriteria(routes, p) ==
    Array([i \in DOMAIN routes |->
        [routes[i] EXCEPT !.criterionValues = DynamicValues(routes[i], p)]])

-----------------------------------------------------------------------------
(* The decision matrix (normalizeMatrix, applyWeights, findIdealSolutions,  *)
(* calculateDistances)                                                      *)

\* cv.criterionId || cv.criterion.name
CriterionKey(cv) == IF cv.criterionId # "" THEN cv.criterionId ELSE cv.criterion.name

\* the Set allCriteria
AllCriteria(routes) ==
    UNION {{CriterionKey(routes[i].criterionValues[j]) :
               j \in DOMAIN routes[i].criterionValues} : i \in DOMAIN routes}

HasCriterion(route, key) ==
    \E j \in DOMAIN route.criterionValues : CriterionKey(route.criterionValues[j]) = key

\* route.criterionValues.find(cv => key of cv === criterionKey)
FindCriterion(route, key) ==
    LET j == CHOOSE k \in DOMAIN route.criterionValues :
                 /\ CriterionKey(route.criterionValues[k]) = key
                 /\ \A l \in 1..(k - 1) : CriterionKey(route.criterionValues[l]) # key
    IN route.criterionValues[j]

\* the raw values of one column: a route without the criterion counts as 0
ColumnValues(routes, key) ==
    [i \in DOMAIN routes |->
        IF HasCriterion(routes[i], key)
        THEN FindCriterion(routes[i], key).valueDecimal
        ELSE 0]

\* A column is brought to four significant digits before it is squared: the
\* factor depends on the largest value of the column only, and the quotient
\* value / sqrt(sum of squares) does not depend on it.
RECURSIVE ScaleUp(_)
ScaleUp(m) == IF m <= 0 \/ m >= 1000 THEN 1 ELSE 10 * ScaleUp(m * 10)

RECURSIVE ScaleDown(_)
ScaleDown(m) == IF m < 10000 THEN 1 ELSE 10 * ScaleDown(m \div 10)

Scaled(v, m) == (v * ScaleUp(m)) \div ScaleDown(m)

\* the largest raw value of every column
ColumnMaxima(routes) ==
    Object([key \in AllCriteria(routes) |-> MaxSeq(ColumnValues(routes, key))])

\* normalizationFactors, on the scaled columns
NormalizationFactors(routes) ==
    Object([key \in AllCriteria(routes) |->
        LET values == ColumnValues(routes, key)
            m == MaxSeq(values)
        IN IF \E i \in DOMAIN values : IsNaN(values[i]) THEN NaN
           ELSE Sqrt(SumSeq([i \in DOMAIN values |->
                    Scaled(values[i], m) * Scaled(values[i], m)]))])

\* the normalisation without the  normalizationFactors[criterionKey] > 0  guard
normalizeMatrixUnguarded(routes) ==
    LET maxima == ColumnMaxima(routes)
        normalizationFactors == NormalizationFactors(routes)
        NormalizedValue(cv) ==
            LET criterionKey == CriterionKey(cv)
            IN Divide(Scaled(cv.valueDecimal, maxima[criterionKey]),
                      normalizationFactors[criterionKey], NOne)
    IN Array([i \in DOMAIN routes |->
        LET cvs == routes[i].criterionValues
        IN [routes[i] EXCEPT !.criterionValues =
               Array([j \in DOMAIN cvs |->
                   [criterionId |-> cvs[j].criterionId,
                    criterion |-> cvs[j].criterion,
                    valueDecimal |-> cvs[j].valueDecimal,
                    normalizedValue |-> NormalizedValue(cvs[j])]])]])

\* lines 305-319: originalValue / normalizationFactors[criterionKey], or 0
normalizeMatrix(routes) ==
    LET maxima == ColumnMaxima(routes)
        normalizationFactors == NormalizationFactors(routes)
        NormalizedValue(cv) ==
            LET criterionKey == CriterionKey(cv)
            IN IF normalizationFactors[criterionKey] > 0
               THEN (Scaled(cv.valueDecimal, maxima[criterionKey]) * NOne)
                        \div normalizationFactors[criterionKey]
               ELSE 0
    IN Array([i \in DOMAIN routes |->
        LET cvs == routes[i].criterionValues
        IN [routes[i] EXCEPT !.criterionValues =
               Array([j \in DOMAIN cvs |->
                   [criterionId |-> cvs[j].criterionId,
                    criterion |-> cvs[j].criterion,
                    valueDecimal |-> cvs[j].valueDecimal,
                    normalizedValue |-> NormalizedValue(cvs[j])]])]])

\* factorWeights.find(fw => fw.factor.name === factorName)?.weight || 0.33
FactorWeightOf(fws, factorName) ==
    IF factorName \in DOMAIN fws THEN fws[factorName] ELSE 33

\* userWeights[factorName] || 0.33
UserWeightOf(uws, factorName) ==
    IF factorName \in DOMAIN uws /\ ~IsNaN(uws[factorName]) /\ uws[factorName] # 0
    THEN uws[factorName]
    ELSE 3300

\* factorWeight * userWeight * criterionWeight, in units of 1/VOne
TotalWeight(cv, fws, uws) ==
    (FactorWeightOf(fws, cv.criterion.factor) * UserWeightOf(uws, cv.criterion.factor)
        * cv.criterion.weightInFactor) \div 1000

applyWeights(routes, fws, uws) ==
    Array([i \in DOMAIN routes |->
        LET cvs == routes[i].criterionValues
        IN [routes[i] EXCEPT !.criterionValues =
               Array([j \in DOMAIN cvs |->
                   [criterionId |-> cvs[j].criterionId,
                    criterion |-> cvs[j].criterion,
                    valueDecimal |-> cvs[j].valueDecimal,
                    normalizedValue |-> cvs[j].normalizedValue,
                    weight |-> TotalWeight(cvs[j], fws, uws),
                    weightedValue |->
                        (cvs[j].normalizedValue * TotalWeight(cvs[j], fws, uws)) \div NOne]])]])

\* JavaScript's  x || true  on a boolean or undefined x (undefined given as FALSE)
OrTrue(x) == IF x THEN x ELSE TRUE

\* the {weightedValue, isBenefit} entries of one column
ColumnEntries(routes, key) ==
    [i \in DOMAIN routes |->
        IF HasCriterion(routes[i], key)
        THEN [weightedValue |-> FindCriterion(routes[i], key).weightedValue,
              isBenefit |-> OrTrue(FindCriterion(routes[i], key).criterion.isBenefit)]
        ELSE [weightedValue |-> 0, isBenefit |-> OrTrue(FALSE)]]

findIdealSolutions(routes) ==
    LET Ideal(key, positive) ==
            LET entries == ColumnEntries(routes, key)
                weightedValues == [i \in DOMAIN entries |-> entries[i].weightedValue]
                isBenefit == OrTrue(entries[1].isBenefit)
            IN IF isBenefit = positive THEN MaxSeq(weightedValues)
               ELSE MinSeq(weightedValues)
    IN [positiveIdeal |-> Object([key \in AllCriteria(routes) |-> Ideal(key, TRUE)]),
        negativeIdeal |-> Object([key \in AllCriteria(routes) |-> Ideal(key, FALSE)])]

\* the relative closeness with the two distances exchanged
TopsisScoreSwapped(dPos, dNeg) == Divide(dPos, dPos + dNeg, SOne)

\* distanceToNegative / (distanceToPositive + distanceToNegative)
TopsisScore(dPos, dNeg) == Divide(dNeg, dPos + dNeg, SOne)

calculateDistances(routes, positiveIdeal, negativeIdeal) ==
    Array([i \in DOMAIN routes |->
        LET cvs == routes[i].criterionValues
            diffPositive == [j \in DOMAIN cvs |->
                cvs[j].weightedValue - positiveIdeal[CriterionKey(cvs[j])]]
            diffNegative == [j \in DOMAIN cvs |->
                cvs[j].weightedValue - negativeIdeal[CriterionKey(cvs[j])]]
            distanceToPositive ==
                Sqrt(SumSeq([j \in DOMAIN cvs |-> diffPositive[j] * diffPositive[j]]))
            distanceToNegative ==
                Sqrt(SumSeq([j \in DOMAIN cvs |-> diffNegative[j] * diffNegative[j]]))
        IN [index |-> i,
            route |-> routes[i],
            distanceToPositive |-> distanceToPositive,
            distanceToNegative |-> distanceToNegative,
            topsisScore |-> TopsisScore(distanceToPositive, distanceToNegative)]])

-----------------------------------------------------------------------------
(* Sorting and ranking (runTopsisAnalysis, step 8)                          *)

\* (a, b) => b.topsisScore - a.topsisScore; a NaN result counts as +0
CompareScores(a, b) ==
    IF IsNaN(a.topsisScore) \/ IsNaN(b.topsisScore) THEN 0
    ELSE b.topsisScore - a.topsisScore

\* The comparator is a consistent comparison function on the array unless a
\* NaN score meets two different numbers (NaN compares equal to both).
ConsistentComparator(scored) ==
    \/ \A i \in DOMAIN scored : ~IsNaN(scored[i].topsisScore)
    \/ Cardinality({scored[i].topsisScore : i \in DOMAIN scored} \ {NaN}) <= 1

\* stable insertion of x into a sorted array
RECURSIVE InsertSorted(_, _)
InsertSorted(sorted, x) ==
    IF sorted = << >> THEN <<x>>
    ELSE LET last == sorted[Len(sorted)]
         IN IF CompareScores(last, x) > 0
            THEN Append(InsertSorted(SubSeq(sorted, 1, Len(sorted) - 1), x), last)
            ELSE Append(sorted, x)

RECURSIVE StableSort(_)
StableSort(scored) ==
    IF scored = << >> THEN << >>
    ELSE InsertSorted(StableSort(SubSeq(scored, 1, Len(scored) - 1)), scored[Len(scored)])

IndexPermutations(n) ==
    {f \in [1..n -> 1..n] : \A i, j \in 1..n : f[i] = f[j] => i = j}

\* Array.prototype.sort: stable for a consistent comparator; for an
\* inconsistent one the order is implementation-defined
SortOutcomes(scored) ==
    IF ConsistentComparator(scored) THEN {StableSort(scored)}
    ELSE {[i \in DOMAIN scored |-> scored[f[i]]] : f \in IndexPermutations(Len(scored))}

\* the RouteEvaluation entries, rank = index + 1
RouteEvaluations(sorted) ==
    [i \in DOMAIN sorted |->
        [routeId |-> sorted[i].route.id,
         routeName |-> sorted[i].route.name,
         difficulty |-> sorted[i].route.difficulty,
         criteria |-> sorted[i].route.criterionValues,
         distanceToPositive |-> sorted[i].distanceToPositive,
         distanceToNegative |-> sorted[i].distanceToNegative,
         topsisScore |-> sorted[i].topsisScore,
         rank |-> i]]

\* steps 2-5 of runTopsisAnalysis
WeightedRoutes(routes, fws, p) ==
    applyWeights(normalizeMatrix(addDynamicCriteria(routes, p)), fws, calculateUserWeights(p))

\* the TopsisResult for one outcome of the sort, with the matrices it came from
TopsisResult(weightedRoutes, ideal, p, sorted) ==
    [weightedRoutes |-> weightedRoutes,
     positiveIdeal |-> ideal.positiveIdeal,
     negativeIdeal |-> ideal.negativeIdeal,
     userPreferenceWeights |-> calculateUserWeights(p),
     routes |-> RouteEvaluations(sorted)]

\* the results runTopsisAnalysis can return
runTopsisAnalysis(routes, fws, p) ==
    LET weightedRoutes == WeightedRoutes(routes, fws, p)
        ideal == findIdealSolutions(weightedRoutes)
        routesWithScores ==
            calculateDistances(weightedRoutes, ideal.positiveIdeal, ideal.negativeIdeal)
    IN {TopsisResult(weightedRoutes, ideal, p, sorted) :
            sorted \in SortOutcomes(routesWithScores)}

-----------------------------------------------------------------------------
(* Catalogs                                                                 *)

MaxRoutes == 3
MonoRoutes == 4
MaxRating == 400
RatingStep == 100

Cv(id, name, isBenefit, factor, weightInFactor, value) ==
    [criterionId |-> id,
     criterion |-> [name |-> name, isBenefit |-> isBenefit, factor |-> factor,
                    weightInFactor |-> weightInFactor],
     valueDecimal |-> value]

\* the eight seeded criteria with the values of one route (prisma seed)
SeedValues(difficultyLevel, trekDistance, elevation, estimatedCost, duration, accessibility, scenicValue, crowding) ==
    << Cv("difficultyLevel", "Difficulty Level", FALSE, "Physical Demand", 40, difficultyLevel),
       Cv("trekDistance", "Trek Distance", FALSE, "Physical Demand", 30, trekDistance),
       Cv("elevation", "Elevation Gain", FALSE, "Physical Demand", 30, elevation),
       Cv("estimatedCost", "Estimated Cost", FALSE, "Logistics & Cost", 50, estimatedCost),
       Cv("duration", "Trek Duration", FALSE, "Logistics & Cost", 30, duration),
       Cv("accessibility", "Accessibility", TRUE, "Logistics & Cost", 20, accessibility),
       Cv("scenicValue", "Scenic Value", TRUE, "Experience Quality", 60, scenicValue),
       Cv("crowding", "Crowding Level", FALSE, "Experience Quality", 40, crowding) >>

SeedCatalog ==
    << [id |-> 1, name |-> "Rinjani Summit via Senaru",
        mountain |-> [name |-> "Mount Rinjani", location |-> "Lombok, West Nusa Tenggara"],
        difficulty |-> "Hard", distance |-> 2450, duration |-> 18,
        criterionValues |-> SeedValues(400, 2450, 220000, 250000, 1800, 300, 500, 400)],
       [id |-> 2, name |-> "Rinjani Crater Rim",
        mountain |-> [name |-> "Mount Rinjani", location |-> "Lombok, West Nusa Tenggara"],
        difficulty |-> "Moderate", distance |-> 1680, duration |-> 12,
        criterionValues |-> SeedValues(300, 1680, 180000, 200000, 1200, 300, 400, 300)],
       [id |-> 3, name |-> "Semeru Summit via Ranu Pane",
        mountain |-> [name |-> "Mount Semeru", location |-> "East Java"],
        difficulty |-> "Expert", distance |-> 2800, duration |-> 20,
        criterionValues |-> SeedValues(500, 2800, 240000, 300000, 2000, 200, 500, 200)],
       [id |-> 4, name |-> "Merapi Summit via Selo",
        mountain |-> [name |-> "Mount Merapi", location |-> "Central Java / Yogyakarta"],
        difficulty |-> "Moderate", distance |-> 840, duration |-> 6,
        criterionValues |-> SeedValues(300, 840, 140000, 80000, 600, 400, 400, 300)] >>

SeedFactorWeights ==
    ("Physical Demand" :> 40) @@ ("Logistics & Cost" :> 30) @@ ("Experience Quality" :> 30)

\* Further routes an administrator can enter: two benefit criteria of the
\* factor Experience Quality, rated 0.0 .. MaxRating/100
PoolValues(scenicValue, uniqueness) ==
    << Cv("scenicValue", "Scenic Value", TRUE, "Experience Quality", 25, scenicValue),
       Cv("uniqueness", "Uniqueness", TRUE, "Experience Quality", 75, uniqueness) >>

PoolRoute(location, difficulty, scenicValue, uniqueness) ==
    [id |-> 0, name |-> "Trail",
     mountain |-> [name |-> "Mountain", location |-> location],
     difficulty |-> difficulty, distance |-> 1000, duration |-> 12,
     criterionValues |-> PoolValues(scenicValue, uniqueness)]

RoutePool ==
    << PoolRoute("Lombok, West Nusa Tenggara", "Moderate", 300, 300),
       PoolRoute("Lombok, West Nusa Tenggara", "Moderate", 0, 0),
       PoolRoute("Lombok, West Nusa Tenggara", "Moderate", 400, 100),
       PoolRoute("Lombok, West Nusa Tenggara", "Moderate", 0, 400),
       PoolRoute("Malang, East Java", "Hard", 200, 300),
       [PoolRoute("Lombok, West Nusa Tenggara", "Moderate", 0, 0) EXCEPT !.criterionValues = << >>] >>

\* the catalogs of 1..maxLen pool routes, ids in catalog order
PoolCatalogs(pool, maxLen) ==
    UNION {{[i \in 1..n |-> [pool[t[i]] EXCEPT !.id = i]] : t \in [1..n -> DOMAIN pool]} :
              n \in 1..maxLen}

-----------------------------------------------------------------------------
(* Ranking requests                                                         *)

RankingPreferences ==
    [experience_level : {"beginner", "intermediate", "expert"},
     fitness_level : {5},
     budget_range : {"under_500k", "1m_2m"},
     time_commitment : {"2_days"},
     location : {"jakarta"},
     group_size : {2},
     interests : {{}, {"scenic_views"}},
     concerns : {{}}]

Init ==
    /\ catalog \in {SeedCatalog} \cup PoolCatalogs(RoutePool, MaxRoutes)
    /\ factorWeights = SeedFactorWeights
    /\ preferences \in RankingPreferences
    /\ pc = "start"
    /\ userWeights = None
    /\ analysis = NoAnalysis
    /\ baseline = NoAnalysis
    /\ raised = None
    /\ call = None
    /\ returned = None
    /\ ui = None
    /\ store = None
    /\ log = << >>
    /\ clock = 0

RunTopsisAnalysis ==
    /\ pc = "start"
    /\ analysis' \in runTopsisAnalysis(catalog, factorWeights, preferences)
    /\ userWeights' = calculateUserWeights(preferences)
    /\ pc' = "done"
    /\ UNCHANGED <<clock, ui, store, log, catalog, factorWeights, preferences, baseline, raised, call, returned>>

Next == RunTopsisAnalysis

Spec == Init /\ [][Next]_vars

-----------------------------------------------------------------------------
(* Ranking, a catalog update, ranking again                                 *)

\* the last template is one raise away from the first
MonoPool == SubSeq(RoutePool, 1, 4) \o << PoolRoute("Lombok, West Nusa Tenggara", "Moderate", 400, 300) >>

MonoPreferences ==
    [experience_level : {"intermediate"},
     fitness_level : {5},
     budget_range : {"1m_2m"},
     time_commitment : {"2_days"},
     location : {"jakarta"},
     group_size : {2},
     interests : {{}},
     concerns : {{}}]

InitMono ==
    /\ catalog \in PoolCatalogs(MonoPool, MonoRoutes)
    /\ factorWeights = SeedFactorWeights
    /\ preferences \in MonoPreferences
    /\ pc = "start"
    /\ userWeights = None
    /\ analysis = NoAnalysis
    /\ baseline = NoAnalysis
    /\ raised = None
    /\ call = None
    /\ returned = None
    /\ ui = None
    /\ store = None
    /\ log = << >>
    /\ clock = 0

\* an administrator raises the stored value of one benefit-type criterion of
\* one route; the next request ranks the updated catalog
UpdateCriterionValue(i, j) ==
    /\ pc = "done"
    /\ raised = None
    /\ catalog[i].criterionValues[j].criterion.isBenefit
    /\ catalog[i].criterionValues[j].valueDecimal + RatingStep <= MaxRating
    /\ catalog' = [catalog EXCEPT ![i].criterionValues[j].valueDecimal = @ + RatingStep]
    /\ raised' = [routeId |-> catalog[i].id,
                  criterionKey |-> CriterionKey(catalog[i].criterionValues[j])]
    /\ baseline' = analysis
    /\ analysis' = NoAnalysis
    /\ pc' = "start"
    /\ UNCHANGED <<clock, ui, store, log, factorWeights, preferences, userWeights, call, returned>>

NextMono ==
    \/ RunTopsisAnalysis
    \/ \E i \in DOMAIN catalog : \E j \in DOMAIN catalog[i].criterionValues :
           UpdateCriterionValue(i, j)

SpecMono == InitMono /\ [][NextMono]_vars

-----------------------------------------------------------------------------
(* Properties of the ranking                                                *)

IsNumber(x) == ~IsNaN(x)

\* numeric comparisons, false as soon as one side is NaN
NumLess(x, y) == IsNumber(x) /\ IsNumber(y) /\ x < y
NumGeq(x, y) == IsNumber(x) /\ IsNumber(y) /\ x >= y

ScenarioA ==
    [experience_level |-> "intermediate", fitness_level |-> 5,
     budget_range |-> "1m_2m", time_commitment |-> "2_days", location |-> "jakarta",
     group_size |-> 2, interests |-> {}, concerns |-> {}]

\* the RouteEvaluation of a route in a result
EvaluationOf(result, routeId) ==
    result.routes[CHOOSE i \in DOMAIN result.routes : result.routes[i].routeId = routeId]

\* the criterion keys and raw values of a route after augmentation
RawValues(criteria) ==
    [j \in DOMAIN criteria |-> <<CriterionKey(criteria[j]), criteria[j].valueDecimal>>]

AllRoutesIdentical(result) ==
    \A i, j \in DOMAIN result.routes :
        RawValues(result.routes[i].criteria) = RawValues(result.routes[j].criteria)

\* C1: every route returned by runTopsisAnalysis has a topsisScore that is a
\* number between 0 and 1, never NaN
C1_ScoreInUnitInterval ==
    pc = "done" =>
        \A i \in DOMAIN analysis.routes :
            /\ IsNumber(analysis.routes[i].topsisScore)
            /\ 0 <= analysis.routes[i].topsisScore
            /\ analysis.routes[i].topsisScore <= SOne

\* the weighted values of one column as findIdealSolutions reads them
WeightedColumn(routes, key) ==
    [i \in DOMAIN routes |->
        IF HasCriterion(routes[i], key)
        THEN FindCriterion(routes[i], key).weightedValue
        ELSE 0]

\* the polarity the catalog gives the criterion of a column
ColumnPolarity(routes, key) ==
    LET i == CHOOSE k \in DOMAIN routes : HasCriterion(routes[k], key)
    IN FindCriterion(routes[i], key).criterion.isBenefit

\* C2: for a benefit-type criterion the positive ideal is the maximum weighted
\* value of the column and the negative ideal the minimum; for a cost-type
\* criterion the positive ideal is the minimum and the negative ideal the maximum
C2_IdealsFollowPolarity ==
    pc = "done" =>
        \A key \in AllCriteria(analysis.weightedRoutes) :
            LET column == WeightedColumn(analysis.weightedRoutes, key)
            IN IF ColumnPolarity(analysis.weightedRoutes, key)
               THEN /\ analysis.positiveIdeal[key] = MaxSeq(column)
                    /\ analysis.negativeIdeal[key] = MinSeq(column)
               ELSE /\ analysis.positiveIdeal[key] = MinSeq(column)
                    /\ analysis.negativeIdeal[key] = MaxSeq(column)

\* C3: the ranks are 1..n in list order, the list is in descending order of
\* topsisScore, and routes with equal scores keep their catalog order
C3_RankedDescendingStable ==
    pc = "done" =>
        /\ Len(analysis.routes) = Len(catalog)
        /\ \A i \in DOMAIN analysis.routes : analysis.routes[i].rank = i
        /\ \A i, j \in DOMAIN analysis.routes :
              i < j =>
                /\ NumGeq(analysis.routes[i].topsisScore, analysis.routes[j].topsisScore)
                /\ (analysis.routes[i].topsisScore = analysis.routes[j].topsisScore
                      => analysis.routes[i].routeId < analysis.routes[j].routeId)

\* C4: if all routes have identical criterion values (static and computed),
\* all routes receive the same topsisScore, a number, and the ranks follow
\* the catalog order
C4_TieBreakLaw ==
    (pc = "done" /\ AllRoutesIdentical(analysis)) =>
        /\ \A i \in DOMAIN analysis.routes :
              /\ IsNumber(analysis.routes[i].topsisScore)
              /\ analysis.routes[i].topsisScore = analysis.routes[1].topsisScore
        /\ \A i \in DOMAIN analysis.routes :
              analysis.routes[i].routeId = i /\ analysis.routes[i].rank = i

\* C5: with the seeded catalog and the preferences of scenario A, Rinjani
\* Crater Rim (route 2) is ranked strictly above Semeru Summit (route 3)
C5_ScenarioA ==
    (pc = "done" /\ catalog = SeedCatalog /\ preferences = ScenarioA) =>
        /\ EvaluationOf(analysis, 2).rank < EvaluationOf(analysis, 3).rank
        /\ NumLess(EvaluationOf(analysis, 3).topsisScore,
                   EvaluationOf(analysis, 2).topsisScore)

\* C6 as claimed: raising one benefit-type raw value of one route never
\* lowers that route's topsisScore and never gives it a worse rank
C6_RaiseKeepsScoreAndRank ==
    (pc = "done" /\ raised # None) =>
        /\ ~NumLess(EvaluationOf(analysis, raised.routeId).topsisScore,
                    EvaluationOf(baseline, raised.routeId).topsisScore)
        /\ EvaluationOf(analysis, raised.routeId).rank
              <= EvaluationOf(baseline, raised.routeId).rank

\* C6 as amended: raising one benefit-type raw value of one route never
\* lowers that route's topsisScore (its rank among the other routes can get
\* worse)
C6_RaiseNeverLowersScore ==
    (pc = "done" /\ raised # None) =>
        ~NumLess(EvaluationOf(analysis, raised.routeId).topsisScore,
                 EvaluationOf(baseline, raised.routeId).topsisScore)

\* a raise that lifts the score of the route while another route overtakes it
C6_Witness ==
    /\ pc = "done"
    /\ raised # None
    /\ Len(catalog) > 1
    /\ NumLess(EvaluationOf(baseline, raised.routeId).topsisScore,
               EvaluationOf(analysis, raised.routeId).topsisScore)
    /\ EvaluationOf(analysis, raised.routeId).rank
          > EvaluationOf(baseline, raised.routeId).rank

\* the sum of f[key] over a set of criterion keys
RECURSIVE SumOverKeys(_, _)
SumOverKeys(f, keys) ==
    IF keys = {} THEN 0
    ELSE LET key == CHOOSE k \in keys : TRUE
         IN f[key] + SumOverKeys(f, keys \ {key})

\* the weighted value of a route in a column, 0 when the route lacks the criterion
WeightedValueOrZero(criteria, key) ==
    IF \E j \in DOMAIN criteria : CriterionKey(criteria[j]) = key
    THEN LET j == CHOOSE k \in DOMAIN criteria : CriterionKey(criteria[k]) = key
         IN criteria[j].weightedValue
    ELSE 0

\* the Euclidean distance of a route to an ideal over the full criterion key set
FullDistance(criteria, ideal) ==
    LET squaredDifference == [key \in DOMAIN ideal |->
            (WeightedValueOrZero(criteria, key) - ideal[key])
                * (WeightedValueOrZero(criteria, key) - ideal[key])]
    IN Sqrt(SumOverKeys(squaredDifference, DOMAIN ideal))

\* C11: distanceToPositive and distanceToNegative of every route are the
\* Euclidean distances over the full criterion key set, a criterion the route
\* lacks counting as weighted value 0
C11_DistancesOverFullKeySet ==
    pc = "done" =>
        \A i \in DOMAIN analysis.routes :
            /\ analysis.routes[i].distanceToPositive
                 = FullDistance(analysis.routes[i].criteria, analysis.positiveIdeal)
            /\ analysis.routes[i].distanceToNegative
                 = FullDistance(analysis.routes[i].criteria, analysis.negativeIdeal)

\* the factors of the criteria of one route
FactorsOf(criteria) == {criteria[j].criterion.factor : j \in DOMAIN criteria}

\* the sum of weightInFactor (hundredths) over the criteria of one factor
FactorWeightSum(criteria, factor) ==
    SumSeq([j \in DOMAIN criteria |->
        IF criteria[j].criterion.factor = factor
        THEN criteria[j].criterion.weightInFactor
        ELSE 0])

\* C12: after augmentation, for every route and every factor the route has
\* criteria of, the weightInFactor values of these criteria sum to 1.0
C12_WeightInFactorSumsToOne ==
    pc = "done" =>
        \A i \in DOMAIN analysis.routes :
            \A factor \in FactorsOf(analysis.routes[i].criteria) :
                FactorWeightSum(analysis.routes[i].criteria, factor) = 100

\* the criterion keys for which every route of the result has raw value 0
ZeroColumns(result) ==
    {key \in DOMAIN result.positiveIdeal :
        \A i \in DOMAIN result.routes :
            \A j \in DOMAIN result.routes[i].criteria :
                CriterionKey(result.routes[i].criteria[j]) = key
                    => result.routes[i].criteria[j].valueDecimal = 0}

\* C13: if every route has raw value 0 for a criterion, its normalizedValue
\* and weightedValue are the number 0 for every route and both ideals of the
\* column are 0, so that the column adds 0 to every distance
C13_ZeroColumnContributesZero ==
    pc = "done" =>
        \A key \in ZeroColumns(analysis) :
            /\ analysis.positiveIdeal[key] = 0
            /\ analysis.negativeIdeal[key] = 0
            /\ \A i \in DOMAIN analysis.routes :
                  \A j \in DOMAIN analysis.routes[i].criteria :
                      CriterionKey(analysis.routes[i].criteria[j]) = key
                          => /\ IsNumber(analysis.routes[i].criteria[j].normalizedValue)
                             /\ analysis.routes[i].criteria[j].normalizedValue = 0
                             /\ analysis.routes[i].criteria[j].weightedValue = 0

\* two routes that are both 0 in Scenic Value and differ in Uniqueness
C13_Witness ==
    /\ pc = "done"
    /\ Len(analysis.routes) = 2
    /\ "scenicValue" \in ZeroColumns(analysis)
    /\ "uniqueness" \notin ZeroColumns(analysis)
    /\ \A i \in DOMAIN analysis.routes :
          /\ Len(analysis.routes[i].criteria) = 4
          /\ IsNumber(analysis.routes[i].topsisScore)

\* some route lacks a static criterion that another route of the catalog has
MissingStaticCriterion(routes) ==
    \E i \in DOMAIN routes : \E key \in AllCriteria(routes) : ~HasCriterion(routes[i], key)

\* C14: if a route lacks a CriterionValue for a static criterion that other
\* routes have, the ranking call is rejected: no ranking is returned
C14_MissingCriterionRejected ==
    (pc = "done" /\ MissingStaticCriterion(catalog)) => "routes" \notin DOMAIN analysis

\* the fallback distance is used for some route of the catalog
UsesFallbackDistance(routes, p) ==
    \/ ToLowerCase(LocationOrDefault(p)) \notin LOCATION_COORDINATES
    \/ \E i \in DOMAIN routes :
          ToLowerCase(MountainLocation(routes[i].mountain.location)) \notin LOCATION_COORDINATES

\* the components of every TopsisResult and of every RouteEvaluation
PlainResultFields ==
    {"routes", "userPreferenceWeights", "weightedRoutes", "positiveIdeal", "negativeIdeal"}

PlainRouteFields ==
    {"routeId", "routeName", "difficulty", "criteria", "distanceToPositive",
     "distanceToNegative", "topsisScore", "rank"}

\* C15: whenever the fallback distance is used, the result carries an explicit
\* signal: a component, on the result or on a route evaluation, that a result
\* computed from known locations does not have
C15_FallbackSignalled ==
    (pc = "done" /\ UsesFallbackDistance(catalog, preferences)) =>
        \/ DOMAIN analysis # PlainResultFields
        \/ \E i \in DOMAIN analysis.routes : DOMAIN analysis.routes[i] # PlainRouteFields

-----------------------------------------------------------------------------
(* Direct calls of calculateTransportDistance                               *)

\* location names a caller passes: the keys of the table in lower and mixed
\* case, the questionnaire's 'other', free text, names of inherited properties
LocationNames ==
    LOCATION_COORDINATES \cup
    {"Jakarta", "Lombok", "other", "east java", "Semarang", "constructor", "Constructor"}

InitDistance ==
    /\ catalog = << >>
    /\ factorWeights = << >>
    /\ preferences = None
    /\ pc = "start"
    /\ userWeights = None
    /\ analysis = NoAnalysis
    /\ baseline = NoAnalysis
    /\ raised = None
    /\ call \in [userLocation : LocationNames, mountainLocation : LocationNames]
    /\ returned = None
    /\ ui = None
    /\ store = None
    /\ log = << >>
    /\ clock = 0

CalculateTransportDistance ==
    /\ pc = "start"
    /\ returned' = calculateTransportDistance(call.userLocation, call.mountainLocation)
    /\ pc' = "done"
    /\ UNCHANGED <<clock, ui, store, log, catalog, factorWeights, preferences, userWeights, analysis, baseline,
                   raised, call>>

NextDistance == CalculateTransportDistance

SpecDistance == InitDistance /\ [][NextDistance]_vars

\* the location name, compared case-insensitively, is a key of the table
InTable(location) == ToLowerCase(location) \in LOCATION_COORDINATES

\* C16: calculateTransportDistance never fails on a location name: if either
\* name is absent from LOCATION_COORDINATES it returns exactly 300, and the
\* Accessibility Score is then exactly 3; if both are present it returns the
\* haversine distance of their coordinates
C16_FallbackOrHaversine ==
    pc = "done" =>
        /\ IsNumber(returned)
        /\ (~InTable(call.userLocation) \/ ~InTable(call.mountainLocation))
              => /\ returned = DefaultDistanceKm * KmOne
                 /\ AccessibilityScore(returned) = 3 * 100 * KmOne
        /\ (InTable(call.userLocation) /\ InTable(call.mountainLocation))
              => returned = haversineDistance(ToLowerCase(call.userLocation),
                                              ToLowerCase(call.mountainLocation))

\* C17 as claimed: for every location key k a caller can pass,
\* calculateTransportDistance(k, k) returns 0
C17_SameKeyIsZero ==
    (pc = "done" /\ call.userLocation = call.mountainLocation) => returned = 0

\* C17 as amended: for every key k of LOCATION_COORDINATES, in any letter
\* case, calculateTransportDistance(k, k) returns 0
C17_SameTableKeyIsZero ==
    (pc = "done" /\ call.userLocation = call.mountainLocation /\ InTable(call.userLocation))
        => returned = 0

C17_Witness ==
    /\ pc = "done"
    /\ call.userLocation = "Lombok"
    /\ call.mountainLocation = "Lombok"
    /\ returned = 0

-----------------------------------------------------------------------------
(* The Accessibility Score of addDynamicCriteria over a range of distances  *)

MaxDistanceKm == 700
DistanceStep == 5000

\* distances in metres: a grid from 0 to MaxDistanceKm, the fallback, the
\* point where the score reaches its floor, and every distance of the table
Distances ==
    {k * DistanceStep : k \in 0..((MaxDistanceKm * KmOne) \div DistanceStep)}
        \cup {DefaultDistanceKm * KmOne, 500 * KmOne}
        \cup {MetresBetween[pair] : pair \in DOMAIN MetresBetween}

InitAccessibility ==
    /\ catalog = << >>
    /\ factorWeights = << >>
    /\ preferences = None
    /\ pc = "start"
    /\ userWeights = None
    /\ analysis = NoAnalysis
    /\ baseline = NoAnalysis
    /\ raised = None
    /\ call \in [distance : Distances]
    /\ returned = None
    /\ ui = None
    /\ store = None
    /\ log = << >>
    /\ clock = 0

ComputeAccessibility ==
    /\ pc = "start"
    /\ returned' = AccessibilityScore(call.distance)
    /\ pc' = "done"
    /\ UNCHANGED <<clock, ui, store, log, catalog, factorWeights, preferences, userWeights, analysis, baseline,
                   raised, call>>

NextAccessibility == ComputeAccessibility

SpecAccessibility == InitAccessibility /\ [][NextAccessibility]_vars

-----------------------------------------------------------------------------
(* Direct calls of calculateTripCost                                        *)

MaxDays == 3
MaxGroup == 5

\* CostCalculationInput: the user's location as typed, the mountain location
\* as addDynamicCriteria normalises it, a difficulty outside the rate tables
CostInputs ==
    [userLocation : {"jakarta", "bandung", "other", "constructor"},
     mountainLocation : {"lombok", "malang", "magelang", "east java"},
     routeDifficulty : {"Easy", "Moderate", "Hard", "Expert", "Extreme"},
     duration : 1..MaxDays,
     groupSize : 1..MaxGroup,
     needsGuide : BOOLEAN,
     needsEquipment : BOOLEAN,
     budgetLevel : {"budget", "standard", "premium"}]

InitCost ==
    /\ catalog = << >>
    /\ factorWeights = << >>
    /\ preferences = None
    /\ pc = "start"
    /\ userWeights = None
    /\ analysis = NoAnalysis
    /\ baseline = NoAnalysis
    /\ raised = None
    /\ call \in CostInputs
    /\ returned = None
    /\ ui = None
    /\ store = None
    /\ log = << >>
    /\ clock = 0

CalculateTripCost ==
    /\ pc = "start"
    /\ returned' = calculateTripCost(call)
    /\ pc' = "done"
    /\ UNCHANGED <<clock, ui, store, log, catalog, factorWeights, preferences, userWeights, analysis, baseline,
                   raised, call>>

NextCost == CalculateTripCost

SpecCost == InitCost /\ [][NextCost]_vars

CategoryFields ==
    {"transportation", "permits", "guide", "accommodation", "meals", "equipment",
     "miscellaneous"}

\* C19: for every input with groupSize >= 1 and duration >= 1 the eight
\* returned fields are non-negative integers and the returned total is the
\* sum of the seven returned category fields
C19_FieldsAddUpToTotal ==
    pc = "done" =>
        /\ \A field \in CategoryFields \cup {"total"} :
              IsNumber(returned[field]) /\ returned[field] >= 0
        /\ returned.total =
              returned.transportation + returned.permits + returned.guide
                  + returned.accommodation + returned.meals + returned.equipment
                  + returned.miscellaneous

\* groupSize 1, one day, budget level, no guide, no equipment
ScenarioD ==
    /\ call.groupSize = 1
    /\ call.duration = 1
    /\ call.budgetLevel = "budget"
    /\ ~call.needsGuide
    /\ ~call.needsEquipment

\* C20: in Scenario D the returned guide, equipment and accommodation are 0
\* and the returned total is transportation + permits + meals + miscellaneous
C20_ScenarioD ==
    (pc = "done" /\ ScenarioD) =>
        /\ returned.guide = 0
        /\ returned.equipment = 0
        /\ returned.accommodation = 0
        /\ returned.total =
              returned.transportation + returned.permits + returned.meals
                  + returned.miscellaneous

-----------------------------------------------------------------------------
(* generateExplanations (rhf.ts).  An explanation is represented by the     *)
(* name of the rule whose template produced it.                             *)

\* difficultyMap[route.difficulty] || 2
DifficultyRank(difficulty) ==
    CASE difficulty = "Easy" -> 1
      [] difficulty = "Moderate" -> 2
      [] difficulty = "Hard" -> 3
      [] difficulty = "Expert" -> 4
      [] OTHER -> 2

\* experienceMap[preferences.experience_level] || 2
ExperienceRank(experience_level) ==
    CASE experience_level = "beginner" -> 1
      [] experience_level = "intermediate" -> 2
      [] experience_level = "advanced" -> 3
      [] experience_level = "expert" -> 4
      [] OTHER -> 2

Abs(x) == IF x < 0 THEN -x ELSE x

\* the three branches of the experience level match
ExperienceFraming(route, p) ==
    LET routeDifficulty == DifficultyRank(route.difficulty)
        userExperience == ExperienceRank(p.experience_level)
    IN IF Abs(routeDifficulty - userExperience) <= 1 THEN "match"
       ELSE IF routeDifficulty > userExperience THEN "challenge"
       ELSE "comfortable"

\* criterion.name.includes(part) on the criterion names of the catalog
NameIncludes(name, part) ==
    CASE part = "Scenic" -> name = "Scenic Value"
      [] part = "Crowding" -> name = "Crowding Level"
      [] OTHER -> FALSE

\* route.criterionValues.find(cv => cv.criterion.name.includes(part)), or None
FindByName(route, part) ==
    LET hits == {k \in DOMAIN route.criterionValues :
                    NameIncludes(route.criterionValues[k].criterion.name, part)}
    IN IF hits = {} THEN None
       ELSE route.criterionValues[CHOOSE k \in hits : \A j \in hits : k <= j]

\* route.criterionValues.find(cv => cv.criterionId === 'calculated_cost'), or None
FindCalculatedCost(route) ==
    LET hits == {k \in DOMAIN route.criterionValues :
                    route.criterionValues[k].criterionId = "calculated_cost"}
    IN IF hits = {} THEN None
       ELSE route.criterionValues[CHOOSE k \in hits : \A j \in hits : k <= j]

\* |routeDifficulty * 2.5 - (fitness_level || 5)| <= 2, in halves
FitnessFires(route, p) ==
    LET fitnessScore == IF p.fitness_level = 0 THEN 5 ELSE p.fitness_level
    IN Abs(5 * DifficultyRank(route.difficulty) - 2 * fitnessScore) <= 4

ScenicFires(route, p) ==
    /\ "scenic_views" \in p.interests
    /\ LET scenicCriterion == FindByName(route, "Scenic")
       IN scenicCriterion # None /\ scenicCriterion.valueDecimal >= 400

ChallengeFires(route, p) ==
    "physical_challenge" \in p.interests /\ DifficultyRank(route.difficulty) >= 3

SolitudeFires(route, p) ==
    /\ "solitude" \in p.interests
    /\ LET crowdingCriterion == FindByName(route, "Crowding")
       IN crowdingCriterion # None /\ crowdingCriterion.valueDecimal <= 200

\* timeMap[preferences.time_commitment] || 2, in half days
PreferredHalfDays(time_commitment) ==
    CASE time_commitment = "half_day" -> 1
      [] time_commitment = "full_day" -> 2
      [] time_commitment = "2_days" -> 4
      [] time_commitment = "3_days" -> 6
      [] time_commitment = "4_plus_days" -> 8
      [] OTHER -> 4

TimeFires(route, p) ==
    Abs(2 * TripDays(route) - PreferredHalfDays(p.time_commitment)) <= 2

\* parseBudgetRange(budgetRange).max
BudgetRangeMax(budget_range) ==
    CASE budget_range = "under_500k" -> 500000
      [] budget_range = "500k_1m" -> 1000000
      [] budget_range = "1m_2m" -> 2000000
      [] budget_range = "2m_5m" -> 5000000
      [] budget_range = "above_5m" -> 10000000
      [] OTHER -> 2000000

BudgetFires(route, p) ==
    LET costCriterion == FindCalculatedCost(route)
    IN /\ costCriterion # None
       /\ ~IsNaN(costCriterion.valueDecimal)
       /\ costCriterion.valueDecimal <= BudgetRangeMax(p.budget_range)

\* the pushes of generateExplanations in program order
PushedExplanations(route, p) ==
    << ExperienceFraming(route, p) >>
        \o (IF FitnessFires(route, p) THEN << "fitness" >> ELSE << >>)
        \o (IF ScenicFires(route, p) THEN << "scenic_views" >> ELSE << >>)
        \o (IF ChallengeFires(route, p) THEN << "physical_challenge" >> ELSE << >>)
        \o (IF SolitudeFires(route, p) THEN << "solitude" >> ELSE << >>)
        \o (IF TimeFires(route, p) THEN << "time_commitment" >> ELSE << >>)
        \o (IF BudgetFires(route, p) THEN << "budget" >> ELSE << >>)

\* variant that keeps the last four explanations
SliceLastFour(explanations) ==
    SubSeq(explanations, Max2(1, Len(explanations) - 3), Len(explanations))

\* explanations.slice(0, 4)
SliceFirstFour(explanations) ==
    SubSeq(explanations, 1, Min2(4, Len(explanations)))

generateExplanations(route, p) == SliceFirstFour(PushedExplanations(route, p))

\* a ranked route as generateExplanations sees it: the static scenic and
\* crowding values, if any, and the calculated cost
ExplainedRoute(difficulty, duration, scenic, crowding, cost) ==
    [difficulty |-> difficulty, duration |-> duration,
     criterionValues |->
        (IF scenic = NaN THEN << >>
         ELSE << Cv("scenicValue", "Scenic Value", TRUE, "Experience Quality", 60, scenic) >>)
        \o << Cv("crowding", "Crowding Level", FALSE, "Experience Quality", 40, crowding),
              Cv("calculated_cost", "Total Trip Cost", FALSE, "Logistics & Cost", 60, cost) >>]

ExplainedRoutes ==
    {ExplainedRoute(difficulty, duration, scenic, crowding, cost) :
        difficulty \in {"Easy", "Moderate", "Hard", "Expert", "Extreme"},
        duration \in {6, 96},
        scenic \in {NaN, 300, 400},
        crowding \in {200, 300},
        cost \in {400000, 3000000}}

ExplainedPreferences ==
    [experience_level : ExperienceLevels,
     fitness_level : {1, 5, 10},
     budget_range : {"under_500k", "2m_5m"},
     time_commitment : {"half_day", "2_days", "4_plus_days"},
     interests : SUBSET {"scenic_views", "physical_challenge", "solitude"}]

InitExplain ==
    /\ catalog = << >>
    /\ factorWeights = << >>
    /\ preferences = None
    /\ pc = "start"
    /\ userWeights = None
    /\ analysis = NoAnalysis
    /\ baseline = NoAnalysis
    /\ raised = None
    /\ call \in [route : ExplainedRoutes, preferences : ExplainedPreferences]
    /\ returned = None
    /\ ui = None
    /\ store = None
    /\ log = << >>
    /\ clock = 0

GenerateExplanations ==
    /\ pc = "start"
    /\ returned' = generateExplanations(call.route, call.preferences)
    /\ pc' = "done"
    /\ UNCHANGED <<clock, ui, store, log, catalog, factorWeights, preferences, userWeights, analysis, baseline,
                   raised, call>>

NextExplain == GenerateExplanations

SpecExplain == InitExplain /\ [][NextExplain]_vars

\* the rules after the experience framing, in their fixed order
RuleOrder ==
    << "fitness", "scenic_views", "physical_challenge", "solitude", "time_commitment",
       "budget" >>

RulePosition(rule) == CHOOSE i \in DOMAIN RuleOrder : RuleOrder[i] = rule

RuleFired(rule, route, p) ==
    CASE rule = "fitness" -> FitnessFires(route, p)
      [] rule = "scenic_views" -> ScenicFires(route, p)
      [] rule = "physical_challenge" -> ChallengeFires(route, p)
      [] rule = "solitude" -> SolitudeFires(route, p)
      [] rule = "time_commitment" -> TimeFires(route, p)
      [] rule = "budget" -> BudgetFires(route, p)

Returned(rule) == \E i \in DOMAIN returned : returned[i] = rule

\* C21: generateExplanations returns 1 to 4 explanations: first exactly one
\* experience framing (match when the ranks differ by at most 1, challenge
\* when the route is harder by more than 1, comfortable when easier by more
\* than 1), then fired rules in the fixed order; a fired rule is left out
\* only when four explanations that come before it were returned
C21_FirstFourInFixedOrder ==
    pc = "done" =>
        LET route == call.route
            p == call.preferences
            harder == DifficultyRank(route.difficulty) - ExperienceRank(p.experience_level)
            rules == {RuleOrder[i] : i \in DOMAIN RuleOrder}
        IN /\ Len(returned) \in 1..4
           /\ returned[1] = (IF harder > 1 THEN "challenge"
                             ELSE IF harder < -1 THEN "comfortable" ELSE "match")
           /\ \A i \in 2..Len(returned) :
                 returned[i] \in rules /\ RuleFired(returned[i], route, p)
           /\ \A i, j \in 2..Len(returned) :
                 i < j => RulePosition(returned[i]) < RulePosition(returned[j])
           /\ \A rule \in rules :
                 (RuleFired(rule, route, p) /\ ~Returned(rule))
                     => /\ Len(returned) = 4
                        /\ \A i \in 2..4 : RulePosition(returned[i]) < RulePosition(rule)

\* four earlier explanations were returned and the budget explanation, whose
\* rule fired, was dropped
C21_Witness ==
    /\ pc = "done"
    /\ Len(returned) = 4
    /\ BudgetFires(call.route, call.preferences)
    /\ ~Returned("budget")

-----------------------------------------------------------------------------
(* Two ranking requests on the same catalog.  runTopsisAnalysis awaits      *)
(* buildDecisionMatrix and then runs to its end without another await, so   *)
(* requests interleave at that one point.  In this specification            *)
(* preferences, pc, call and returned hold one entry per request; call[r]   *)
(* is what buildDecisionMatrix gave request r.                              *)

Requests == {1, 2}

ConcurrentCatalogs == {SeedCatalog} \cup PoolCatalogs(RoutePool, 1)

\* variant in which addDynamicCriteria pushes onto route.criterionValues itself
RoutesAfterPush(routes, p) == addDynamicCriteria(routes, p)

\* the routes array a request was given, after steps 2-8 ran on it: every
\* step builds new arrays and objects (routes.map, spreads, [...criterionValues])
RoutesAfterAnalysis(routes, p) == routes

InitConcurrent ==
    /\ catalog \in ConcurrentCatalogs
    /\ factorWeights = SeedFactorWeights
    /\ preferences \in {q \in [Requests -> RankingPreferences] : q[1] # q[2]}
    /\ pc = [r \in Requests |-> "start"]
    /\ userWeights = None
    /\ analysis = NoAnalysis
    /\ baseline = NoAnalysis
    /\ raised = None
    /\ call = [r \in Requests |-> None]
    /\ returned = [r \in Requests |-> None]
    /\ ui = None
    /\ store = None
    /\ log = << >>
    /\ clock = 0

BuildDecisionMatrix(r) ==
    /\ pc[r] = "start"
    /\ call' = [call EXCEPT ![r] = [routes |-> catalog, factorWeights |-> factorWeights]]
    /\ pc' = [pc EXCEPT ![r] = "built"]
    /\ UNCHANGED <<clock, ui, store, log, catalog, factorWeights, preferences, userWeights, analysis, baseline,
                   raised, returned>>

RankBuiltMatrix(r) ==
    /\ pc[r] = "built"
    /\ \E result \in runTopsisAnalysis(call[r].routes, call[r].factorWeights, preferences[r]) :
          returned' = [returned EXCEPT ![r] = result]
    /\ call' = [call EXCEPT ![r].routes = RoutesAfterAnalysis(@, preferences[r])]
    /\ pc' = [pc EXCEPT ![r] = "done"]
    /\ UNCHANGED <<clock, ui, store, log, catalog, factorWeights, preferences, userWeights, analysis, baseline,
                   raised>>

NextConcurrent ==
    \E r \in Requests : BuildDecisionMatrix(r) \/ RankBuiltMatrix(r)

SpecConcurrent == InitConcurrent /\ [][NextConcurrent]_vars

-----------------------------------------------------------------------------
(* The questionnaire wizard (wizard/page.tsx on the questions of            *)
(* /api/questions).  ui holds the React state of the page, log the steps    *)
(* the page has shown and the press that led to each.                       *)

MaxPresses == 6

\* questionsSchema.steps, in array order
Steps ==
    << "personal_info", "experience_level", "preferences_beginner", "preferences_general",
       "preferences_advanced", "budget_timeframe", "group_logistics",
       "additional_requirements" >>

StartStep == "personal_info"

HikingExperienceOptions == {"beginner", "intermediate", "advanced", "expert"}

\* hiking_experience.next
BranchOf(answer) ==
    CASE answer = "beginner" -> "preferences_beginner"
      [] answer = "intermediate" -> "preferences_general"
      [] answer = "advanced" -> "preferences_general"
      [] answer = "expert" -> "preferences_advanced"
      [] OTHER -> "preferences_beginner"

\* step.questions[0].next of a step that does not branch; "" for null
FirstQuestionNext(stepId) ==
    CASE stepId = "personal_info" -> "experience_level"
      [] stepId = "preferences_beginner" -> "budget_timeframe"
      [] stepId = "preferences_general" -> "interests"
      [] stepId = "preferences_advanced" -> "budget_timeframe"
      [] stepId = "budget_timeframe" -> "time_commitment"
      [] stepId = "group_logistics" -> "additional_requirements"
      [] stepId = "additional_requirements" -> ""

\* questionsData.steps.find(step => step.id === currentStepId) is defined
IsStep(stepId) == \E i \in DOMAIN Steps : Steps[i] = stepId

\* questionsData.steps.findIndex(step => step.id === currentStepId) || 0,
\* counted from 0
StepIndex(stepId) ==
    IF IsStep(stepId) THEN (CHOOSE i \in DOMAIN Steps : Steps[i] = stepId) - 1 ELSE -1

\* the step data a valid form submit carries: the hiking_experience answer
\* on the experience_level step, nothing the navigation reads elsewhere
StepData(stepId) ==
    IF stepId = "experience_level"
    THEN {[hiking_experience |-> answer] : answer \in HikingExperienceOptions}
    ELSE {[hiking_experience |-> ""]}

\* { ...formData, ...stepData }
MergeFormData(formData, stepData) ==
    IF stepData.hiking_experience = "" THEN formData ELSE stepData

Presses == Len(SelectSeq(log, LAMBDA entry : entry.press # "start"))

\* the page renders the form with its Previous and Next buttons
FormShown == ~ui.isSubmitting /\ IsStep(ui.currentStepId)

InitWizard ==
    /\ catalog = << >>
    /\ factorWeights = << >>
    /\ preferences = None
    /\ pc = "start"
    /\ userWeights = None
    /\ analysis = NoAnalysis
    /\ baseline = NoAnalysis
    /\ raised = None
    /\ call = None
    /\ returned = None
    /\ ui = [currentStepId |-> StartStep, completedSteps |-> << >>,
             formData |-> [hiking_experience |-> ""], isSubmitting |-> FALSE]
    /\ store = None
    /\ log = << [press |-> "start", shown |-> StartStep] >>
    /\ clock = 0

\* handleNext on a valid form submit; at the end of the wizard it starts
\* submitWizard instead of moving on
HandleNext ==
    /\ FormShown
    /\ Presses < MaxPresses
    /\ \E stepData \in StepData(ui.currentStepId) :
          LET newFormData == MergeFormData(ui.formData, stepData)
              completed ==
                  IF \E i \in DOMAIN ui.completedSteps :
                        ui.completedSteps[i] = ui.currentStepId
                  THEN ui.completedSteps
                  ELSE Append(ui.completedSteps, ui.currentStepId)
              nextStepId ==
                  IF ui.currentStepId = "experience_level"
                  THEN BranchOf(stepData.hiking_experience)
                  ELSE FirstQuestionNext(ui.currentStepId)
          IN IF nextStepId = ""
             THEN /\ ui' = [ui EXCEPT !.formData = newFormData,
                                      !.completedSteps = completed,
                                      !.isSubmitting = TRUE]
                  /\ log' = Append(log, [press |-> "next", shown |-> "submitting"])
             ELSE /\ ui' = [ui EXCEPT !.formData = newFormData,
                                      !.completedSteps = completed,
                                      !.currentStepId = nextStepId]
                  /\ log' = Append(log, [press |-> "next", shown |-> nextStepId])
    /\ UNCHANGED <<clock, catalog, factorWeights, preferences, pc, userWeights, analysis, baseline,
                   raised, call, returned, store>>

\* handlePrevious; the button is disabled on the first step
HandlePrevious ==
    /\ FormShown
    /\ Presses < MaxPresses
    /\ StepIndex(ui.currentStepId) # 0
    /\ LET currentIndex == StepIndex(ui.currentStepId)
       IN IF currentIndex > 0
          THEN /\ ui' = [ui EXCEPT !.currentStepId = Steps[currentIndex]]
               /\ log' = Append(log, [press |-> "previous", shown |-> Steps[currentIndex]])
          ELSE UNCHANGED <<ui, log>>
    /\ UNCHANGED <<clock, catalog, factorWeights, preferences, pc, userWeights, analysis, baseline,
                   raised, call, returned, store>>

NextWizard == HandleNext \/ HandlePrevious

SpecWizard == InitWizard /\ [][NextWizard]_vars

PreferencesSteps == {"preferences_beginner", "preferences_general", "preferences_advanced"}

\* the steps a user with this hiking_experience answer is to see, in order
WizardPath(answer) ==
    << "personal_info", "experience_level", BranchOf(answer), "budget_timeframe",
       "group_logistics", "additional_requirements", "submitting" >>

OnlyNextPressed == \A i \in DOMAIN log : log[i].press # "previous"

\* C23: pressing only Next with valid answers, the wizard shows
\* personal_info, experience_level, the one preferences step selected by
\* the hiking_experience answer, budget_timeframe, group_logistics and
\* additional_requirements in that order, and then submits once
C23_NextOnlyWalksThePath ==
    OnlyNextPressed =>
        \/ Len(log) <= 2 /\ \A i \in DOMAIN log : log[i].shown = Steps[i]
        \/ /\ Len(log) <= 7
           /\ \A i \in DOMAIN log : log[i].shown = WizardPath(ui.formData.hiking_experience)[i]

\* C24: whatever was pressed, a preferences step on the screen is the one
\* selected by the user's hiking_experience answer
C24_OnlySelectedPreferencesShown ==
    (ui.currentStepId \in PreferencesSteps /\ ui.formData.hiking_experience # "")
        => ui.currentStepId = BranchOf(ui.formData.hiking_experience)

-----------------------------------------------------------------------------
(* submitWizard (wizard/page.tsx).  The two servers answer as they like:    *)
(* with an id, with an error status, or not at all (fetch rejects).         *)

MaxId == 4

\* what a fetch can come back with
FetchOutcomes ==
    {[status |-> "ok", id |-> id] : id \in 1..MaxId}
        \cup {[status |-> "error", id |-> 0], [status |-> "rejected", id |-> 0]}

\* variant without the finally block
KeepSubmitting(state) == state

\* finally { setIsSubmitting(false) }
Finally(state) == [state EXCEPT !.isSubmitting = FALSE]

InitSubmit ==
    /\ catalog = << >>
    /\ factorWeights = << >>
    /\ preferences = None
    /\ pc = "start"
    /\ userWeights = None
    /\ analysis = NoAnalysis
    /\ baseline = NoAnalysis
    /\ raised = None
    /\ call \in [hiking_experience : HikingExperienceOptions]
    /\ returned = None
    /\ ui = [currentStepId |-> "additional_requirements", completedSteps |-> << >>,
             formData |-> call, isSubmitting |-> FALSE]
    /\ store = None
    /\ log = << >>
    /\ clock = 0

\* setIsSubmitting(true) and the first fetch, up to its await
SubmitWizard ==
    /\ pc = "start"
    /\ ui' = [ui EXCEPT !.isSubmitting = TRUE]
    /\ log' = Append(log, [event |-> "POST /api/intakes", answersJson |-> call])
    /\ pc' = "awaiting intake"
    /\ UNCHANGED <<clock, catalog, factorWeights, preferences, userWeights, analysis, baseline,
                   raised, call, returned, store>>

\* the intake fetch settles: on success the second fetch up to its await,
\* otherwise the catch and finally blocks
IntakeSettles ==
    /\ pc = "awaiting intake"
    /\ \E outcome \in FetchOutcomes :
          IF outcome.status = "ok"
          THEN /\ log' = log \o << [event |-> "intake response", status |-> "ok", id |-> outcome.id],
                                   [event |-> "POST /api/recommendations",
                                    intakeId |-> outcome.id] >>
               /\ pc' = "awaiting recommendation"
               /\ ui' = ui
          ELSE /\ log' = log \o << [event |-> "intake response", status |-> outcome.status, id |-> 0],
                                   [event |-> "alert"] >>
               /\ pc' = "finished"
               /\ ui' = Finally(ui)
    /\ UNCHANGED <<clock, catalog, factorWeights, preferences, userWeights, analysis, baseline,
                   raised, call, returned, store>>

\* the recommendation fetch settles: router.push on success, the catch
\* block otherwise, the finally block in both cases
RecommendationSettles ==
    /\ pc = "awaiting recommendation"
    /\ \E outcome \in FetchOutcomes :
          IF outcome.status = "ok"
          THEN log' = log \o << [event |-> "recommendation response", status |-> "ok",
                                 id |-> outcome.id],
                                [event |-> "redirect", id |-> outcome.id] >>
          ELSE log' = log \o << [event |-> "recommendation response", status |-> outcome.status,
                                 id |-> 0],
                                [event |-> "alert"] >>
    /\ pc' = "finished"
    /\ ui' = Finally(ui)
    /\ UNCHANGED <<clock, catalog, factorWeights, preferences, userWeights, analysis, baseline,
                   raised, call, returned, store>>

NextSubmit == SubmitWizard \/ IntakeSettles \/ RecommendationSettles

SpecSubmit == InitSubmit /\ [][NextSubmit]_vars

EventAt(i, event) == i \in DOMAIN log /\ log[i].event = event

\* C25: the recommendation request follows a successful intake response and
\* carries its id; the redirect follows a successful recommendation
\* response and carries its id; after a failed request nothing but the
\* error alert follows; isSubmitting is true from the start of the
\* submission until it finishes and false afterwards
C25_SubmissionOrdered ==
    /\ \A i \in DOMAIN log :
          /\ EventAt(i, "POST /api/recommendations")
                => /\ EventAt(i - 1, "intake response")
                   /\ log[i - 1].status = "ok"
                   /\ log[i].intakeId = log[i - 1].id
          /\ EventAt(i, "redirect")
                => /\ EventAt(i - 1, "recommendation response")
                   /\ log[i - 1].status = "ok"
                   /\ log[i].id = log[i - 1].id
          /\ (log[i].event \in {"intake response", "recommendation response"}
                  /\ log[i].status # "ok")
                => /\ pc = "finished"
                   /\ Len(log) = i + 1
                   /\ EventAt(i + 1, "alert")
    /\ ui.isSubmitting <=> pc \in {"awaiting intake", "awaiting recommendation"}
    /\ EventAt(1, "POST /api/intakes") <=> pc # "start"

\* a submission that went through to the redirect
C25_Witness ==
    /\ pc = "finished"
    /\ EventAt(Len(log), "redirect")
    /\ ~ui.isSubmitting

-----------------------------------------------------------------------------
(* InMemoryRateLimit and its middleware (rateLimit.ts).  store is the       *)
(* clients Map, clock is Date.now(), returned is the last response of the   *)
(* middleware.  log holds, per client, what an observer of the requests     *)
(* keeps: when the client's current window opened, how many requests it     *)
(* made since, and the times of the allowed requests of the last windowMs.  *)

WindowMs == 3
MaxRequests == 2
MaxTime == 6
MaxRejected == 1

Clients == {"10.0.0.1", "10.0.0.2"}

NoWindow == [opened |-> -1, counted |-> 0, admitted |-> << >>]

\* variant that lets the window end one time step early
ExpiredAtReset(now, resetTime) == now >= resetTime

\* now > client.resetTime
Expired(now, resetTime) == now > resetTime

\* the record isRateLimited leaves in the Map
RecordAfterRequest(client, now) ==
    IF client = None \/ Expired(now, client.resetTime)
    THEN [count |-> 1, resetTime |-> now + WindowMs]
    ELSE [client EXCEPT !.count = @ + 1]

\* the value isRateLimited returns
isRateLimited(client, now) ==
    IF client = None \/ Expired(now, client.resetTime)
    THEN FALSE
    ELSE client.count + 1 > MaxRequests

getStatus(client, now) ==
    IF client = None \/ Expired(now, client.resetTime)
    THEN [remaining |-> MaxRequests - 1, resetTime |-> now + WindowMs, total |-> MaxRequests]
    ELSE [remaining |-> Max2(0, MaxRequests - client.count), resetTime |-> client.resetTime,
          total |-> MaxRequests]

\* the times of a sequence that lie in the last windowMs before now
WithinLastWindow(times, now) == SelectSeq(times, LAMBDA t : t > now - WindowMs)

\* the observer's record of a client after a request at time now
Observed(seen, now, allowed, later) ==
    LET inWindow == seen.opened # -1 /\ now <= seen.opened + WindowMs
    IN [opened |-> IF inWindow THEN seen.opened ELSE now,
        counted |-> IF inWindow THEN seen.counted + 1 ELSE 1,
        admitted |-> WithinLastWindow(
            IF allowed THEN Append(seen.admitted, now) ELSE seen.admitted, later)]

InitRateLimit ==
    /\ catalog = << >>
    /\ factorWeights = << >>
    /\ preferences = None
    /\ pc = "start"
    /\ userWeights = None
    /\ analysis = NoAnalysis
    /\ baseline = NoAnalysis
    /\ raised = None
    /\ call = None
    /\ returned = None
    /\ ui = None
    /\ store = [c \in Clients |-> None]
    /\ log = [c \in Clients |-> NoWindow]
    /\ clock = 0

\* one request through the middleware: isRateLimited reads the clock, then
\* getStatus reads it again, by when it may have moved on
RateLimitCheck(clientId) ==
    LET client == store[clientId]
        now == clock
        limited == isRateLimited(client, now)
        record == RecordAfterRequest(client, now)
    IN /\ IF client = None THEN TRUE
          ELSE Expired(now, client.resetTime) \/ client.count < MaxRequests + MaxRejected
       /\ \E later \in {now, now + 1} :
             /\ later <= MaxTime
             /\ clock' = later
             /\ store' = [store EXCEPT ![clientId] = record]
             /\ call' = [clientId |-> clientId, now |-> now]
             /\ returned' =
                   [status |-> IF limited THEN 429 ELSE 200,
                    remaining |-> getStatus(record, later).remaining,
                    resetTime |-> getStatus(record, later).resetTime]
             /\ log' = [c \in Clients |->
                          IF c = clientId THEN Observed(log[c], now, ~limited, later)
                          ELSE [log[c] EXCEPT !.admitted = WithinLastWindow(@, later)]]
       /\ pc' = "responded"
       /\ UNCHANGED <<catalog, factorWeights, preferences, userWeights, analysis, baseline,
                      raised, ui>>

\* the setInterval callback
Cleanup ==
    /\ store' = [c \in Clients |->
                    IF store[c] # None /\ Expired(clock, store[c].resetTime)
                    THEN None ELSE store[c]]
    /\ store' # store
    /\ pc' = "cleaned"
    /\ UNCHANGED <<catalog, factorWeights, preferences, userWeights, analysis, baseline,
                   raised, call, returned, ui, log, clock>>

Tick ==
    /\ clock < MaxTime
    /\ clock' = clock + 1
    /\ log' = [c \in Clients |-> [log[c] EXCEPT !.admitted = WithinLastWindow(@, clock + 1)]]
    /\ pc' = "idle"
    /\ UNCHANGED <<catalog, factorWeights, preferences, userWeights, analysis, baseline,
                   raised, call, returned, ui, store>>

NextRateLimit == (\E clientId \in Clients : RateLimitCheck(clientId)) \/ Cleanup \/ Tick

SpecRateLimit == InitRateLimit /\ [][NextRateLimit]_vars

\* C26: per client, the window opens at the first request (or the first
\* after the previous window expired) and lasts until resetTime = t0 +
\* windowMs inclusive; of the requests in it exactly the first maxRequests
\* are allowed; another client's requests and cleanup change neither the
\* client's count and resetTime nor any decision
C26_FixedWindowPerClient ==
    /\ \A c \in Clients :
          IF store[c] = None
          THEN log[c].opened = -1 \/ clock > log[c].opened + WindowMs
          ELSE /\ store[c].count = log[c].counted
               /\ store[c].resetTime = log[c].opened + WindowMs
    /\ pc = "responded" =>
          (returned.status = 200 <=> log[call.clientId].counted <= MaxRequests)

\* a request at the last instant of the window, rejected as the third one
C26_Witness ==
    /\ pc = "responded"
    /\ returned.status = 429
    /\ call.now = log[call.clientId].opened + WindowMs
    /\ store[CHOOSE c \in Clients : c # call.clientId] # None

\* C27: in any time interval of length windowMs at most maxRequests
\* requests of one client are allowed
C27_SlidingWindowBound ==
    \A c \in Clients : Len(log[c].admitted) <= MaxRequests

\* C28: a request after resetTime is allowed and opens a new window with
\* count 1, however many requests were rejected before, and the remaining
\* value the middleware reports is never negative and is
\* max(0, maxRequests - requests counted in the current window)
C28_AdmittedAgainAndRemaining ==
    pc = "responded" =>
        /\ (log[call.clientId].opened = call.now /\ log[call.clientId].counted = 1)
              => /\ returned.status = 200
                 /\ store[call.clientId].count = 1
                 /\ store[call.clientId].resetTime = call.now + WindowMs
        /\ returned.remaining >= 0
        /\ returned.remaining = Max2(0, MaxRequests - log[call.clientId].counted)

-----------------------------------------------------------------------------
(* DELETE /api/recommendations/[id].  Two requests run side by side and     *)
(* interleave at the awaits of the handler.  store is the recommendation    *)
(* table with the userId of each recommendation's intake ("" for null),     *)
(* baseline the table before the requests; pc, call and returned hold one   *)
(* entry per request, call[q] the request's id parameter, its session user  *)
(* id ("" without a session) and its local existingRecommendation.          *)
(* returned[q] is the status of the response, 0 before there is one.        *)

Users == {"alice", "bob"}

RecommendationIds == {"rec-1", "rec-2"}

DeleteRequests == {1, 2}

RecommendationRows == {None} \cup {[userId |-> userId] : userId \in Users \cup {""}}

\* existingRecommendation.intake.userId !== session.user.id
NotOwner(userId, sessionUserId) == userId # sessionUserId

InitDelete ==
    /\ catalog = << >>
    /\ factorWeights = << >>
    /\ preferences = None
    /\ pc = [q \in DeleteRequests |-> "start"]
    /\ userWeights = None
    /\ analysis = NoAnalysis
    /\ raised = None
    /\ call \in [DeleteRequests ->
                    [id : RecommendationIds, sessionUserId : Users \cup {""},
                     existingRecommendation : {None}]]
    /\ returned = [q \in DeleteRequests |-> 0]
    /\ ui = None
    /\ store \in [RecommendationIds -> RecommendationRows]
    /\ baseline = store
    /\ log = << >>
    /\ clock = 0

Respond(q, status) ==
    /\ returned' = [returned EXCEPT ![q] = status]
    /\ pc' = [pc EXCEPT ![q] = "done"]

\* getAuth() and the authentication check
Authenticate(q) ==
    /\ pc[q] = "start"
    /\ IF call[q].sessionUserId = ""
       THEN Respond(q, 401)
       ELSE pc' = [pc EXCEPT ![q] = "authenticated"] /\ UNCHANGED returned
    /\ UNCHANGED <<catalog, factorWeights, preferences, userWeights, analysis, baseline,
                   raised, call, ui, store, log, clock>>

\* db.recommendation.findUnique, the existence check and the ownership check
FindRecommendation(q) ==
    /\ pc[q] = "authenticated"
    /\ LET existingRecommendation == store[call[q].id]
       IN /\ call' = [call EXCEPT ![q].existingRecommendation = existingRecommendation]
          /\ IF existingRecommendation = None
             THEN Respond(q, 404)
             ELSE IF NotOwner(existingRecommendation.userId, call[q].sessionUserId)
             THEN Respond(q, 403)
             ELSE pc' = [pc EXCEPT ![q] = "authorized"] /\ UNCHANGED returned
    /\ UNCHANGED <<catalog, factorWeights, preferences, userWeights, analysis, baseline,
                   raised, ui, store, log, clock>>

\* db.recommendation.delete, which throws when the row is gone; the catch
\* block answers 500
DeleteRecommendation(q) ==
    /\ pc[q] = "authorized"
    /\ IF store[call[q].id] = None
       THEN Respond(q, 500) /\ UNCHANGED store
       ELSE Respond(q, 200) /\ store' = [store EXCEPT ![call[q].id] = None]
    /\ UNCHANGED <<catalog, factorWeights, preferences, userWeights, analysis, baseline,
                   raised, call, ui, log, clock>>

NextDelete ==
    \E q \in DeleteRequests :
        Authenticate(q) \/ FindRecommendation(q) \/ DeleteRecommendation(q)

SpecDelete == InitDelete /\ [][NextDelete]_vars

\* the caller of request q has a session and is the user of the intake of
\* the recommendation, as it was before the requests
IsOwner(q) ==
    /\ call[q].sessionUserId # ""
    /\ baseline[call[q].id] # None
    /\ baseline[call[q].id].userId = call[q].sessionUserId

\* C29: a recommendation is removed if and only if the caller has a session
\* whose user id is the userId of the recommendation's intake; otherwise
\* the store is unchanged and the response is 401 without a session, 404
\* when the recommendation does not exist, 403 when the caller is not the
\* intake's user, in that order; a recommendation of an anonymous intake is
\* never deleted
C29_DeleteOnlyByOwner ==
    /\ \A id \in RecommendationIds :
          IF baseline[id] # None /\ store[id] = None
          THEN /\ baseline[id].userId # ""
               /\ \E q \in DeleteRequests :
                     IsOwner(q) /\ call[q].id = id /\ returned[q] = 200
          ELSE store[id] = baseline[id]
    /\ \A q \in DeleteRequests :
          pc[q] = "done" =>
              IF call[q].sessionUserId = "" THEN returned[q] = 401
              ELSE IF call[q].existingRecommendation = None
              THEN returned[q] = 404 /\ store[call[q].id] = None
              ELSE IF ~IsOwner(q) THEN returned[q] = 403
              ELSE returned[q] = 200

-----------------------------------------------------------------------------
(* saveTopsisResults (rhf.ts) as the POST handler calls it.  store holds    *)
(* the recommendation and recommendationItem tables, call the arguments,    *)
(* returned the id the function returns.                                    *)

MaxRanked == 7

\* a TopsisResult with n ranked routes; the scores descend from the top or,
\* with the 0/0 of calculateDistances, are all NaN
RankedResult(n, scores) ==
    [routes |-> [i \in 1..n |->
        [routeId |-> i, rank |-> i,
         topsisScore |-> IF scores = "NaN" THEN NaN ELSE SOne - i * (SOne \div 10)]]]

\* topsisResult.routes.slice(0, 5)
TopRoutes(topsisResult) ==
    SubSeq(topsisResult.routes, 1, Min2(5, Len(topsisResult.routes)))

\* the rows of the createMany call
ItemRows(recommendationId, topsisResult) ==
    {[recommendationId |-> recommendationId,
      routeId |-> TopRoutes(topsisResult)[i].routeId,
      rank |-> TopRoutes(topsisResult)[i].rank,
      score |-> TopRoutes(topsisResult)[i].topsisScore] :
        i \in DOMAIN TopRoutes(topsisResult)}

InitSave ==
    /\ catalog = << >>
    /\ factorWeights = << >>
    /\ preferences = None
    /\ pc = "start"
    /\ userWeights = None
    /\ analysis = NoAnalysis
    /\ baseline = NoAnalysis
    /\ raised = None
    /\ call \in [intakeId : {"intake-1", "intake-2"},
                 userId : Users \cup {""},
                 topsisResult : {RankedResult(n, scores) :
                                    n \in 0..MaxRanked, scores \in {"numbers", "NaN"}}]
    /\ returned = None
    /\ ui = None
    /\ store = [recommendation |-> {}, recommendationItem |-> {}]
    /\ log = << >>
    /\ clock = 0

\* db.recommendation.create
CreateRecommendation ==
    /\ pc = "start"
    /\ store' = [store EXCEPT !.recommendation =
                    @ \cup {[id |-> "rec-1", intakeId |-> call.intakeId,
                             userId |-> call.userId,
                             topsisScoreJson |-> call.topsisResult]}]
    /\ pc' = "created"
    /\ UNCHANGED <<catalog, factorWeights, preferences, userWeights, analysis, baseline,
                   raised, call, returned, ui, log, clock>>

\* db.recommendationItem.createMany goes through and the id is returned
CreateItems ==
    /\ pc = "created"
    /\ store' = [store EXCEPT !.recommendationItem =
                    @ \cup ItemRows("rec-1", call.topsisResult)]
    /\ returned' = "rec-1"
    /\ pc' = "saved"
    /\ UNCHANGED <<catalog, factorWeights, preferences, userWeights, analysis, baseline,
                   raised, call, ui, log, clock>>

\* db.recommendationItem.createMany throws: saveTopsisResults rejects and
\* the catch block of POST answers with an error
CreateItemsFails ==
    /\ pc = "created"
    /\ returned' = "error"
    /\ pc' = "failed"
    /\ UNCHANGED <<catalog, factorWeights, preferences, userWeights, analysis, baseline,
                   raised, call, ui, store, log, clock>>

NextSave == CreateRecommendation \/ CreateItems \/ CreateItemsFails

SpecSave == InitSave /\ [][NextSave]_vars

ItemsOf(recommendationId) ==
    {item \in store.recommendationItem : item.recommendationId = recommendationId}

\* C30: after any outcome of saveTopsisResults, a failed item insert
\* included, every stored recommendation has its items: the first
\* min(5, n) ranked routes with ranks 1..min(5, n) and their scores
C30_RecommendationHasItems ==
    pc \in {"saved", "failed"} =>
        \A recommendation \in store.recommendation :
            LET routes == recommendation.topsisScoreJson.routes
                kept == Min2(5, Len(routes))
            IN /\ Cardinality(ItemsOf(recommendation.id)) = kept
               /\ \A i \in 1..kept :
                     \E item \in ItemsOf(recommendation.id) :
                         /\ item.rank = i
                         /\ item.routeId = routes[i].routeId
                         /\ item.score = routes[i].topsisScore

=============================================================================
